---- MODULE Spec2Model ----
(***************************************************************************)
(* examples/src/bin/orientable_subclass.rs                                 *)
(*                                                                         *)
(* A gtk::Widget subclass (ExCustomOrientable) that implements             *)
(* gtk::Orientable: it caches an "orientation" property, forwards it to    *)
(* its BoxLayout layout manager, parents two labels in constructed() and   *)
(* unparents them in dispose().  main() builds a window with the widget    *)
(* and a button whose click handler flips the orientation.                 *)
(*                                                                         *)
(* The widget is the record obj; each GObject hook of the subclass is an   *)
(* operator from the widget record to the widget record, and each step of  *)
(* main / the GObject construction sequence / the event loop is an action. *)
(* hist, clicks and clickBase are history variables: they record what the  *)
(* hooks did and never influence them.                                     *)
(***************************************************************************)
EXTENDS Integers, Sequences, FiniteSets, TLC

VARIABLES pc,            \* position of the program (main, Object::new, event loop)
          appResult,     \* outcome of gtk::Application::new
          widgetResult,  \* outcome of glib::Object::new in CustomOrientable::new
          window,        \* the ApplicationWindow: "none", "created", "shown", "closed"
          obj,           \* the CustomOrientable instance, NoObj before it exists
          disposeCount,  \* number of dispose() calls made so far
          hist,          \* the last HistLen hook calls made on the widget
          clicks,        \* button clicks since the last direct set-orientation call
          clickBase      \* cached orientation before the first of those clicks

vars == <<pc, appResult, widgetResult, window, obj, disposeCount, hist, clicks, clickBase>>

----------------------------------------------------------------------------
(* Bounds *)

HistLen == 2
MaxClicks == 4
MaxDispose == 3

----------------------------------------------------------------------------
(* Values *)

None == "None"

Horizontal == "Horizontal"
Vertical == "Vertical"

\* gtk::Orientation values that pass the enum ParamSpec's validation.
Orientations == {Horizontal, Vertical}

\* The two gtk::Label children, named by their text.
Hello == "Hello"
World == "World!"

\* PROPERTIES: the installed properties, indexed from 0 in the source.
PROPERTIES == <<"orientation">>

PropertyIds == 0 .. (Len(PROPERTIES) - 1)

DefaultValueVertical == Vertical

\* The ParamSpec's default value, used by the construct-time set
\* (ParamFlags::CONSTRUCT) when no property is supplied to Object::new.
DefaultValue == Horizontal

LayoutManagerTypeUnset == None

\* class_init: klass.set_layout_manager_type::<gtk::BoxLayout>()
LayoutManagerType == "BoxLayout"

\* constructed: layout_manager.set_spacing(6)
Spacing == 6

\* No layout manager attached (get_layout_manager() returns None).
NoLayoutManager == [type |-> None, orientation |-> None, spacing |-> 0]

\* A freshly created layout manager of the registered type: a gtk::BoxLayout
\* starts with orientation Horizontal and spacing 0.
NewLayoutManager ==
  IF LayoutManagerType = None
    THEN NoLayoutManager
    ELSE [type |-> LayoutManagerType, orientation |-> Horizontal, spacing |-> 0]

\* The widget before Object::new has created it.
NoObj == [first_label |-> None, second_label |-> None, orientation |-> None,
          layout_manager |-> NoLayoutManager, children |-> <<>>, panic |-> None]

\* ObjectSubclass::new: the default field values of the private struct.
new == [first_label |-> None, second_label |-> None, orientation |-> Horizontal]

\* Instance initialisation: the gtk::Widget base attaches a layout manager of
\* the type registered in class_init, then the private struct is new().
instance_init ==
  [first_label |-> new.first_label, second_label |-> new.second_label,
   orientation |-> new.orientation,
   layout_manager |-> NewLayoutManager, children |-> <<>>, panic |-> None]

Panic(w, msg) == [w EXCEPT !.panic = msg]

\* obj.get_layout_manager().unwrap().downcast::<gtk::BoxLayout>().unwrap()
\* TRUE when both unwraps succeed.
HasBoxLayout(w) ==
  /\ w.layout_manager.type # None
  /\ w.layout_manager.type = "BoxLayout"

\* set_property that updates the cache and forgets the layout manager.
set_property_unforwarded(w, id, value) ==
  IF PROPERTIES[id + 1] = "orientation"
    THEN IF HasBoxLayout(w)
           THEN [w EXCEPT !.orientation = value]
           ELSE Panic(w, "unwrap")
    ELSE Panic(w, "unimplemented")

\* ObjectImpl::set_property
set_property(w, id, value) ==
  IF PROPERTIES[id + 1] = "orientation"
    THEN LET cached == [w EXCEPT !.orientation = value]
         IN IF HasBoxLayout(cached)
              THEN [cached EXCEPT !.layout_manager.orientation = value]
              ELSE Panic(cached, "unwrap")
    ELSE Panic(w, "unimplemented")

\* get_property that returns the placeholder instead of the cached value.
get_property_placeholder(w, id) ==
  IF PROPERTIES[id + 1] = "orientation"
    THEN [ret |-> Horizontal, w |-> w]
    ELSE [ret |-> None, w |-> Panic(w, "unimplemented")]

\* get_property that takes the cached value out (replace) instead of borrowing it.
get_property_taking(w, id) ==
  IF PROPERTIES[id + 1] = "orientation"
    THEN [ret |-> w.orientation, w |-> [w EXCEPT !.orientation = Horizontal]]
    ELSE [ret |-> None, w |-> Panic(w, "unimplemented")]

\* ObjectImpl::get_property: the returned glib::Value and the widget after.
get_property(w, id) ==
  IF PROPERTIES[id + 1] = "orientation"
    THEN [ret |-> w.orientation, w |-> w]
    ELSE [ret |-> None, w |-> Panic(w, "unimplemented")]

\* widget.set_parent(obj): the child is appended to obj's children.
set_parent(w, child) == [w EXCEPT !.children = Append(@, child)]

\* child.unparent(): the child is removed from obj's children.
unparent(w, child) ==
  [w EXCEPT !.children = SelectSeq(@, LAMBDA c : c # child)]

\* constructed that parents only the first label.
constructed_one_parent(w) ==
  IF HasBoxLayout(w)
    THEN LET spaced == [w EXCEPT !.layout_manager.spacing = Spacing]
             first  == set_parent(spaced, Hello)
         IN [first EXCEPT !.first_label = Hello, !.second_label = World]
    ELSE Panic(w, "unwrap")

\* ObjectImpl::constructed
constructed(w) ==
  IF HasBoxLayout(w)
    THEN LET spaced == [w EXCEPT !.layout_manager.spacing = Spacing]
             first  == set_parent(spaced, Hello)
             second == set_parent(first, World)
         IN [second EXCEPT !.first_label = Hello, !.second_label = World]
    ELSE Panic(w, "unwrap")

\* dispose that releases both references and unparents only the first child.
dispose_first_only(w) ==
  LET released == [w EXCEPT !.first_label = None, !.second_label = None]
  IN IF w.first_label # None
       THEN [w |-> unparent(released, w.first_label), unparented |-> <<w.first_label>>]
       ELSE [w |-> released, unparented |-> <<>>]

\* dispose that unwraps the references instead of testing them.
dispose_unwrap(w) ==
  IF w.first_label = None \/ w.second_label = None
    THEN [w |-> Panic(w, "unwrap"), unparented |-> <<>>]
    ELSE [w |-> unparent(unparent([w EXCEPT !.first_label = None, !.second_label = None],
                                  w.first_label), w.second_label),
          unparented |-> <<w.first_label, w.second_label>>]

\* ObjectImpl::dispose: the widget after, and the widgets unparent was called on.
dispose(w) ==
  LET first == IF w.first_label # None
                 THEN [w |-> unparent([w EXCEPT !.first_label = None], w.first_label),
                       unparented |-> <<w.first_label>>]
                 ELSE [w |-> w, unparented |-> <<>>]
      w1 == first.w
  IN IF w1.second_label # None
       THEN [w |-> unparent([w1 EXCEPT !.second_label = None], w1.second_label),
             unparented |-> Append(first.unparented, w1.second_label)]
       ELSE first

\* A click handler whose second arm sets Vertical again.
SwitchedStuck(o) ==
  CASE o = Horizontal -> Vertical
    [] o = Vertical -> Vertical
    [] OTHER -> None

\* The orientation the click handler switches to.
Switched(o) ==
  CASE o = Horizontal -> Vertical
    [] o = Vertical -> Horizontal
    [] OTHER -> None

\* The closure connected to the button's "clicked" signal:
\* get_orientation() and set_orientation() go through the "orientation" property.
clicked(w) ==
  LET got == get_property(w, 0)
  IN IF got.w.panic # None
       THEN got.w
       ELSE IF Switched(got.ret) = None
              THEN Panic(got.w, "unreachable")
              ELSE set_property(got.w, 0, Switched(got.ret))

\* A Result whose error is ignored.
expect_ignored(result, next, abort) == next

\* .expect(..) on a Result: the next position on Ok, the abort position on Err.
expect(result, next, abort) == IF result = "Ok" THEN next ELSE abort

----------------------------------------------------------------------------
(* History *)

Last(h) == h[Len(h)]

\* Record a hook call, keeping the last HistLen of them.
Record(h, op, arg, ret, pre) ==
  LET e == [op |-> op, arg |-> arg, ret |-> ret, pre |-> pre]
      all == Append(h, e)
  IN IF Len(all) > HistLen THEN Tail(all) ELSE all

\* Position after a hook: the program dies if the hook panicked.
After(w, next) == IF w.panic # None THEN "panicked" ELSE next

----------------------------------------------------------------------------
(* Program *)

Init ==
  /\ pc = "start"
  /\ appResult = "pending"
  /\ widgetResult = "pending"
  /\ window = "none"
  /\ obj = NoObj
  /\ disposeCount = 0
  /\ hist = <<>>
  /\ clicks = 0
  /\ clickBase = None

\* main: gtk::Application::new(..).expect("Initialization failed...")
AppNew ==
  /\ pc = "start"
  /\ \E r \in {"Ok", "Err"} :
       /\ appResult' = r
       /\ pc' = expect(r, "app_created", "abort_init")
  /\ UNCHANGED <<widgetResult, window, obj, disposeCount, hist, clicks, clickBase>>

\* application.run(): the activate handler starts and creates the window and
\* the box, up to the call of CustomOrientable::new().
Activate ==
  /\ pc = "app_created"
  /\ window' = "created"
  /\ pc' = "activate"
  /\ UNCHANGED <<appResult, widgetResult, obj, disposeCount, hist, clicks, clickBase>>

\* CustomOrientable::new: glib::Object::new(&[]).expect(..); on success the
\* instance is initialised.
ObjectNew ==
  /\ pc = "activate"
  /\ \E r \in {"Ok", "Err"} :
       /\ widgetResult' = r
       /\ pc' = expect(r, "instance", "abort_widget")
       /\ obj' = IF r = "Ok" THEN instance_init ELSE obj
  /\ UNCHANGED <<appResult, window, disposeCount, hist, clicks, clickBase>>

\* Object::new sets every CONSTRUCT property; none is supplied, so
\* "orientation" is set to the ParamSpec's default.
ConstructSet ==
  /\ pc = "instance"
  /\ obj' = set_property(obj, 0, DefaultValue)
  /\ hist' = Record(hist, "set", DefaultValue, None, obj)
  /\ pc' = After(obj', "props_set")
  /\ UNCHANGED <<appResult, widgetResult, window, disposeCount, clicks, clickBase>>

\* Object::new then calls the constructed hook.
Constructed ==
  /\ pc = "props_set"
  /\ obj' = constructed(obj)
  /\ hist' = Record(hist, "constructed", None, None, obj)
  /\ pc' = After(obj', "constructed")
  /\ UNCHANGED <<appResult, widgetResult, window, disposeCount, clicks, clickBase>>

\* The rest of the activate handler: the button is created and connected,
\* both are packed into the box and the window is shown.
Show ==
  /\ pc = "constructed"
  /\ window' = "shown"
  /\ pc' = "shown"
  /\ UNCHANGED <<appResult, widgetResult, obj, disposeCount, hist, clicks, clickBase>>

\* The button is clicked while the window is up.
Click ==
  /\ pc = "shown"
  /\ clicks < MaxClicks
  /\ obj' = clicked(obj)
  /\ hist' = Record(hist, "click", None, None, obj)
  /\ clicks' = clicks + 1
  /\ clickBase' = IF clicks = 0 THEN obj.orientation ELSE clickBase
  /\ pc' = After(obj', "shown")
  /\ UNCHANGED <<appResult, widgetResult, window, disposeCount>>

\* Orientable::set_orientation(v) called on the widget.
SetOrientation ==
  /\ pc = "shown"
  /\ \E id \in PropertyIds, v \in Orientations :
       /\ obj' = set_property(obj, id, v)
       /\ hist' = Record(hist, "set", v, None, obj)
  /\ clicks' = 0
  /\ clickBase' = None
  /\ pc' = After(obj', "shown")
  /\ UNCHANGED <<appResult, widgetResult, window, disposeCount>>

\* Orientable::get_orientation() called on the widget.
GetOrientation ==
  /\ pc = "shown"
  /\ \E id \in PropertyIds :
       /\ obj' = get_property(obj, id).w
       /\ hist' = Record(hist, "get", None, get_property(obj, id).ret, obj)
  /\ pc' = After(obj', "shown")
  /\ UNCHANGED <<appResult, widgetResult, window, disposeCount, clicks, clickBase>>

\* The window is closed: the widget tree is torn down, which runs the
\* widget's dispose hook.
WindowClose ==
  /\ pc = "shown"
  /\ window' = "closed"
  /\ obj' = dispose(obj).w
  /\ hist' = Record(hist, "dispose", None, dispose(obj).unparented, obj)
  /\ disposeCount' = disposeCount + 1
  /\ pc' = After(obj', "disposed")
  /\ UNCHANGED <<appResult, widgetResult, clicks, clickBase>>

\* GObject may run dispose again on an object that was already disposed.
Dispose ==
  /\ pc = "disposed"
  /\ disposeCount < MaxDispose
  /\ obj' = dispose(obj).w
  /\ hist' = Record(hist, "dispose", None, dispose(obj).unparented, obj)
  /\ disposeCount' = disposeCount + 1
  /\ pc' = After(obj', "disposed")
  /\ UNCHANGED <<appResult, widgetResult, window, clicks, clickBase>>

\* application.run() returns and main ends.
Exit ==
  /\ pc = "disposed"
  /\ pc' = "exited"
  /\ UNCHANGED <<appResult, widgetResult, window, obj, disposeCount, hist, clicks, clickBase>>

Next ==
  \/ AppNew
  \/ Activate
  \/ ObjectNew
  \/ ConstructSet
  \/ Constructed
  \/ Show
  \/ Click
  \/ SetOrientation
  \/ GetOrientation
  \/ WindowClose
  \/ Dispose
  \/ Exit

Spec == Init /\ [][Next]_vars

----------------------------------------------------------------------------
(* Properties *)

\* Positions at which the widget instance exists.
WidgetExists == {"instance", "props_set", "constructed", "shown", "disposed", "exited"}

\* Positions from the end of the constructed hook up to the first dispose.
ConstructedNotDisposed == {"constructed", "shown"}

\* The hook call before the last one.
Prev(h) == h[Len(h) - 1]

LastOp(op) == Len(hist) >= 1 /\ Last(hist).op = op

PrevOp(op) == Len(hist) >= 2 /\ Prev(hist).op = op

\* C1: in every state where the widget exists, after any sequence of
\* construction steps, set and get calls, clicks and dispose calls, the cached
\* orientation equals the orientation of the attached BoxLayout.
OrientationInSync ==
  pc \in WidgetExists =>
    /\ obj.layout_manager.type = "BoxLayout"
    /\ obj.orientation = obj.layout_manager.orientation

\* A set call has changed the orientation and both copies hold the new value.
OrientationInSyncWitness ==
  /\ pc = "shown"
  /\ LastOp("set")
  /\ Last(hist).pre.orientation # Last(hist).arg
  /\ obj.orientation = Last(hist).arg
  /\ obj.layout_manager.orientation = Last(hist).arg

\* C2: a get made right after a set of "orientation" to v returns v,
\* whatever the orientation was before the set.
SetThenGetReturnsValue ==
  (PrevOp("set") /\ LastOp("get")) => Last(hist).ret = Prev(hist).arg

\* A set that changed the orientation to Vertical was followed by a get.
SetThenGetWitness ==
  /\ PrevOp("set") /\ LastOp("get")
  /\ Prev(hist).pre.orientation = Horizontal
  /\ Prev(hist).arg = Vertical
  /\ Last(hist).ret = Vertical

\* C3: from the end of the constructed hook until dispose runs, through any
\* set and get calls, exactly the two labels "Hello" and "World!" are parented
\* under the widget and first_label and second_label both hold a reference.
TwoChildrenAfterConstructed ==
  pc \in ConstructedNotDisposed =>
    /\ Len(obj.children) = 2
    /\ {obj.children[i] : i \in 1 .. Len(obj.children)} = {"Hello", "World!"}
    /\ obj.first_label # None
    /\ obj.second_label # None

\* The widget was constructed, then set and read, and still has both children.
TwoChildrenWitness ==
  /\ pc = "shown"
  /\ PrevOp("set") /\ LastOp("get")
  /\ Len(obj.children) = 2

\* C4: once dispose has run (in particular once the window is closed), no
\* child is parented under the widget and both label references are None.
NoChildrenAfterDispose ==
  (disposeCount > 0 \/ window = "closed") =>
    /\ pc \in {"disposed", "exited"}
    /\ obj.children = <<>>
    /\ obj.first_label = None
    /\ obj.second_label = None

\* The window close disposed a widget that had both children parented.
NoChildrenWitness ==
  /\ window = "closed"
  /\ disposeCount = 1
  /\ LastOp("dispose")
  /\ Len(Last(hist).pre.children) = 2
  /\ obj.children = <<>>

\* C5: a dispose call made when both references are already None does not
\* fail, calls unparent on no widget and leaves the widget as it was.
DisposeIdempotent ==
  (/\ LastOp("dispose")
   /\ Last(hist).pre.first_label = None
   /\ Last(hist).pre.second_label = None) =>
    /\ pc # "panicked"
    /\ obj = Last(hist).pre
    /\ Last(hist).ret = <<>>

\* A second dispose call has run.
DisposeIdempotentWitness ==
  /\ disposeCount >= 2
  /\ LastOp("dispose")
  /\ Last(hist).pre.first_label = None
  /\ Last(hist).pre.second_label = None
  /\ pc = "disposed"

\* C6: each click flips the orientation to the other value, so after an even
\* number of consecutive clicks it is the value before the first click and
\* after an odd number it is the other value.
ClickFlipsOrientation ==
  /\ LastOp("click") =>
       /\ pc # "panicked"
       /\ Last(hist).pre.orientation = "Horizontal" => obj.orientation = "Vertical"
       /\ Last(hist).pre.orientation = "Vertical" => obj.orientation = "Horizontal"
  /\ clicks > 0 =>
       /\ obj.orientation \in Orientations
       /\ clickBase \in Orientations
       /\ (clicks % 2 = 0) => obj.orientation = clickBase
       /\ (clicks % 2 = 1) => obj.orientation # clickBase

\* Two clicks in a row brought the orientation back.
ClickFlipsWitness ==
  /\ clicks = 2
  /\ PrevOp("click") /\ LastOp("click")
  /\ Prev(hist).pre.orientation = obj.orientation
  /\ Last(hist).pre.orientation # obj.orientation

\* C7: a widget constructed with no properties has orientation Horizontal in
\* both the cache and the layout manager and get returns Horizontal; after
\* set(Vertical) both read Vertical, and after a following set(Horizontal) both
\* read Horizontal again.
DefaultIsHorizontal ==
  /\ (pc \in {"instance", "props_set", "constructed"}
      \/ (pc = "shown" /\ LastOp("constructed"))
      \/ (pc = "shown" /\ PrevOp("constructed") /\ LastOp("get"))) =>
       /\ get_property(obj, 0).ret = "Horizontal"
       /\ obj.layout_manager.orientation = "Horizontal"
       /\ LastOp("get") => Last(hist).ret = "Horizontal"
  /\ (pc = "shown" /\ LastOp("set") /\ Last(hist).arg = "Vertical") =>
       /\ get_property(obj, 0).ret = "Vertical"
       /\ obj.layout_manager.orientation = "Vertical"
  /\ (pc = "shown" /\ PrevOp("set") /\ Prev(hist).arg = "Vertical"
      /\ LastOp("set") /\ Last(hist).arg = "Horizontal") =>
       /\ get_property(obj, 0).ret = "Horizontal"
       /\ obj.layout_manager.orientation = "Horizontal"

\* The first call on a newly constructed widget is a get.
DefaultIsHorizontalWitness ==
  /\ pc = "shown"
  /\ PrevOp("constructed") /\ LastOp("get")
  /\ Last(hist).ret = "Horizontal"
  /\ obj.layout_manager.orientation = "Horizontal"

\* C8: the program aborts in exactly two cases.  When Application::new fails
\* it aborts before any window or widget exists; when Object::new fails it
\* aborts in the activate handler, before the window is shown.  It never goes
\* on after either failure, and it stops abnormally for no other reason.
OnlyTwoFatalAborts ==
  /\ appResult = "Err" =>
       /\ pc = "abort_init"
       /\ window = "none"
       /\ obj = NoObj
       /\ widgetResult = "pending"
  /\ widgetResult = "Err" =>
       /\ pc = "abort_widget"
       /\ window = "created"
       /\ obj = NoObj
  /\ pc = "abort_init" => appResult = "Err"
  /\ pc = "abort_widget" => widgetResult = "Err"
  /\ pc # "panicked"

\* Object::new failed after the application had been created.
OnlyTwoFatalAbortsWitness ==
  /\ appResult = "Ok"
  /\ widgetResult = "Err"
  /\ pc = "abort_widget"

\* C9: a get leaves the whole widget as it was, and the constructed and
\* dispose hooks leave the cached orientation and the layout manager's
\* orientation as they were.
OnlySetChangesOrientation ==
  /\ LastOp("get") => obj = Last(hist).pre
  /\ (LastOp("constructed") \/ LastOp("dispose")) =>
       /\ obj.orientation = Last(hist).pre.orientation
       /\ obj.layout_manager.orientation = Last(hist).pre.layout_manager.orientation

\* A get was made on a widget whose orientation is Vertical.
OnlySetChangesWitness ==
  /\ LastOp("get")
  /\ Last(hist).pre.orientation = "Vertical"
  /\ obj = Last(hist).pre

\* C10: no hook of the widget panics between instance creation and dispose:
\* a BoxLayout is attached from instance creation on, so every set of
\* "orientation", the construct-time one included, completes.
NoWidgetPanic ==
  /\ pc # "panicked"
  /\ obj.panic = None
  /\ pc \in {"instance", "props_set", "constructed", "shown"} => HasBoxLayout(obj)
  /\ LastOp("set") => HasBoxLayout(Last(hist).pre)

\* The construct-time set has run, before the children exist.
NoWidgetPanicWitness ==
  /\ pc = "props_set"
  /\ LastOp("set")
  /\ obj.first_label = None
  /\ obj.children = <<>>
  /\ obj.panic = None

====
